---- MODULE Spec2Model ----
(***************************************************************************)
(* The statistics cache of challenge/backend/src/routes/stats.js: the      *)
(* module-level cache (statsCache, cacheTimestamp), the fs.watch listener  *)
(* on the data file, loadStats and the GET /api/stats handler, together    *)
(* with the data file they read and the filesystem that changes it.        *)
(* The items router of challenge/backend/src/routes/items.js (GET and      *)
(* POST /api/items) shares that data file and is modelled after the cache. *)
(*                                                                         *)
(* Node runs every callback to completion, so each action below is one     *)
(* callback (or one synchronous stretch of a handler up to its first       *)
(* await); fs.readFile is asynchronous, so a store read is three steps:    *)
(* it is issued, the filesystem reads the bytes, the callback runs.        *)
(*                                                                         *)
(* Prices are fixed-point integers in thousandths of the currency unit.    *)
(***************************************************************************)
EXTENDS Integers, Sequences, FiniteSets, Bags, TLC

\* ---------------------------------------------------------------- bounds
\* Longest item array the data file holds in the cache specification.
MaxItems == 1
\* Largest value of the clock (Date.now()).
MaxClock == 1
\* Watcher notifications queued and not yet delivered.
MaxEvents == 1
\* Store reads in flight at once.
MaxReads == 2
\* Longest array calculateStats is given when it is checked on its own.
MaxLen == 3
\* Longest item array the items router writes.
MaxStore == 2
\* POST /api/items requests in flight at once.
MaxPosts == 2
\* GET /api/items requests in flight at once.
MaxLists == 1

\* Fetch effects the frontend runs (AbortControllers it creates).
MaxFetches == 3
\* Largest page the Items component is taken to.
MaxPage == 2
\* Redirect timers of ItemDetail pending at once.
MaxRedirects == 1

\* ------------------------------------------------------------ the store
\* Item records as items.js writes them (id, name, category, price).
\* The store grows by appending (POST /api/items) and is reset by rewriting:
\* its contents are the prefixes of this list.
Catalog ==
  << [id |-> 1, name |-> "Laptop", category |-> "Electronics", price |-> 29990],
     [id |-> 2, name |-> "Chair", category |-> "Furniture", price |-> 125],
     [id |-> 3, name |-> "Phone", category |-> "Electronics", price |-> 999990],
     [id |-> 4, name |-> "Desk", category |-> "furniture", price |-> 1005] >>

\* The text of the data file: JSON of an item array, or text JSON.parse rejects.
JsonOf(items) == [valid |-> TRUE, items |-> items]
BadJson == [valid |-> FALSE, items |-> << >>]
Contents == {JsonOf(SubSeq(Catalog, 1, n)) : n \in 0..MaxItems} \cup {BadJson}

\* null, and a present value, of a JavaScript variable that is either.
Null == << >>
Some(v) == <<v>>

\* ------------------------------------------------------- calculateStats
\* Faulty variant: the guard for the empty array is missing, and 0 / 0 and
\* Math.min() of nothing are not the number 0 (written -1 here).
EmptyStatsUnguarded ==
  [total |-> 0, averagePrice |-> -1, totalValue |-> 0,
   categories |-> << >>, priceRange |-> [min |-> -1, max |-> -1]]

EmptyStats ==
  [total |-> 0, averagePrice |-> 0, totalValue |-> 0,
   categories |-> << >>, priceRange |-> [min |-> 0, max |-> 0]]

\* items.reduce((acc, cur) => acc + cur.price, 0)
RECURSIVE sumPrices(_, _, _)
sumPrices(items, i, acc) ==
  IF i > Len(items) THEN acc ELSE sumPrices(items, i + 1, acc + items[i].price)

\* Names every object literal inherits from Object.prototype: on the
\* accumulator {} the lookup acc[name] finds the inherited value (a function,
\* or the prototype itself), which is truthy.
ObjectPrototypeKeys ==
  {"constructor", "toString", "valueOf", "hasOwnProperty", "__proto__"}

\* The category reduce: a bucket is created on the first item of a category
\* for which acc[category] is falsy. For an inherited name it never is: no
\* bucket is created, count and totalValue are written on the inherited
\* object, and the accumulator gets no key of its own.
RECURSIVE reduceCategories(_, _, _)
reduceCategories(items, i, acc) ==
  IF i > Len(items) THEN acc
  ELSE LET c == items[i].category
           old == IF c \in DOMAIN acc THEN acc[c] ELSE [count |-> 0, totalValue |-> 0]
           new == [count |-> old.count + 1, totalValue |-> old.totalValue + items[i].price]
       IN  IF c \in ObjectPrototypeKeys
           THEN reduceCategories(items, i + 1, acc)
           ELSE reduceCategories(items, i + 1,
                  [k \in DOMAIN acc \cup {c} |-> IF k = c THEN new ELSE acc[k]])

\* Faulty variant: the price of the first item is taken for the minimum.
minPriceFirst(items) == items[1].price

\* Math.min(...prices) and Math.max(...prices) of a non-empty array.
minPrice(items) ==
  CHOOSE p \in {items[i].price : i \in DOMAIN items} :
    \A j \in DOMAIN items : p <= items[j].price
maxPrice(items) ==
  CHOOSE p \in {items[i].price : i \in DOMAIN items} :
    \A j \in DOMAIN items : p >= items[j].price

\* Faulty variant: the third decimal is cut off.
round2Truncates(num, den) == 10 * (num \div (10 * den))

\* Math.round(x * 100) / 100 for x = num / den >= 0, all in thousandths:
\* Math.round rounds a half up.
round2(num, den) == 10 * ((2 * num + 10 * den) \div (20 * den))

\* Faulty variant: total counts the categories, not the items.
calculateStatsCountsCategories(items) ==
  IF Len(items) = 0 THEN EmptyStats
  ELSE LET totalValue == sumPrices(items, 1, 0)
           categories == reduceCategories(items, 1, << >>)
       IN  [total |-> Cardinality(DOMAIN categories),
            averagePrice |-> round2(totalValue, Len(items)),
            totalValue |-> round2(totalValue, 1),
            categories |-> categories,
            priceRange |-> [min |-> minPrice(items), max |-> maxPrice(items)]]

calculateStats(items) ==
  IF Len(items) = 0 THEN EmptyStats
  ELSE LET total == Len(items)
           totalValue == sumPrices(items, 1, 0)
       IN  [total |-> total,
            averagePrice |-> round2(totalValue, total),
            totalValue |-> round2(totalValue, 1),
            categories |-> reduceCategories(items, 1, << >>),
            priceRange |-> [min |-> minPrice(items), max |-> maxPrice(items)]]

\* ---------------------------------------------------------------- state
VARIABLES
  dataFile,        \* the text of data/items.json
  statsCache,      \* Null or Some(summary)
  cacheTimestamp,  \* Null or Some(time)
  watcher,         \* Null or Some("FSWatcher")
  loaded,          \* the module body (setupFileWatcher() at load) has run
  events,          \* watcher notifications the filesystem has queued
  reads,           \* the bag of fs.readFile calls in flight
  now,             \* Date.now()
  started,         \* a GET /api/stats request has been received
  resp,            \* the response sent last
  log,             \* the kinds of console lines written so far
  settled,         \* history: the refresh started by the 'change' notification
                   \* of the latest modification has completed successfully
  quiet,           \* history: a GET has been answered 200 and no 'change'
                   \* notification was delivered since
  cleared,         \* history: a 'change' notification was delivered and no
                   \* store read has stored an entry since
  handles,         \* the number of filesystem watch handles that are open
  itemsArg,        \* calculateStats on its own: the array it is given
  statsOut,        \* calculateStats on its own: Null or Some(what it returned)
  calls,           \* routes/items.js: the bag of its requests in flight
  itemsResp,       \* routes/items.js: the response its latest step sent, if any
  created,         \* history: the items POST /api/items has answered 201 with
  provider,        \* DataContext.js: the state of DataProvider
  itemsPage,       \* pages/Items.js: the component's state and its effects
  itemDetail,      \* pages/ItemDetail.js: the component's state and its effect
  fetches,         \* the fetch() calls of the frontend that have not settled
  aborted,         \* the AbortControllers whose abort() has been called
  issued,          \* the number of AbortControllers created so far
  redirects        \* pending setTimeout(() => navigate('/'), 2000) timers

\* The state of the frontend (the browser's side).
browser == <<provider, itemsPage, itemDetail, fetches, aborted, issued, redirects>>

vars == <<dataFile, statsCache, cacheTimestamp, watcher, loaded, events, reads,
          now, started, resp, log, settled, quiet, cleared, handles, itemsArg,
          statsOut, calls, itemsResp, created, browser>>

\* useState(...) of DataProvider.
InitialPagination ==
  [page |-> 1, limit |-> 20, total |-> 0, totalPages |-> 0, hasMore |-> FALSE]
InitialProvider ==
  [items |-> << >>, pagination |-> InitialPagination, loading |-> FALSE,
   error |-> Null]

\* A component that is not rendered, with the useState(...) values a mount
\* gives it. debounce and effect are React's record of the component's two
\* effects: Null, or what the effect that ran last captured.
NoItemsPage ==
  [mounted |-> FALSE, searchQuery |-> "", debouncedQuery |-> "", currentPage |-> 1,
   debounce |-> Null, effect |-> Null]
NoItemDetail ==
  [mounted |-> FALSE, instance |-> 0, id |-> 0, item |-> Null, loading |-> TRUE,
   error |-> Null, effect |-> Null]

\* The page before React has rendered a route.
BrowserInit ==
  /\ provider = InitialProvider
  /\ itemsPage = NoItemsPage
  /\ itemDetail = NoItemDetail
  /\ fetches = {}
  /\ aborted = {}
  /\ issued = 0
  /\ redirects = 0

NoResponse == [status |-> 0, body |-> Null, cached |-> Null, cacheAge |-> Null]
NoItemsResponse == [status |-> 0, body |-> Null]

\* Faulty variant: the module starts with a summary already cached.
InitPreloaded ==
  /\ dataFile \in Contents
  /\ statsCache = Some(EmptyStats)
  /\ cacheTimestamp = Some(0)
  /\ watcher = Null
  /\ loaded = FALSE
  /\ events = << >>
  /\ reads = EmptyBag
  /\ now = 0
  /\ started = FALSE
  /\ resp = NoResponse
  /\ log = {}
  /\ settled = FALSE
  /\ quiet = FALSE
  /\ cleared = FALSE
  /\ handles = 0
  /\ itemsArg = << >>
  /\ statsOut = Null
  /\ calls = EmptyBag
  /\ itemsResp = NoItemsResponse
  /\ created = {}
  /\ BrowserInit

Init ==
  /\ dataFile \in Contents
  /\ statsCache = Null
  /\ cacheTimestamp = Null
  /\ watcher = Null
  /\ loaded = FALSE
  /\ events = << >>
  /\ reads = EmptyBag
  /\ now = 0
  /\ started = FALSE
  /\ resp = NoResponse
  /\ log = {}
  /\ settled = FALSE
  /\ quiet = FALSE
  /\ cleared = FALSE
  /\ handles = 0
  /\ itemsArg = << >>
  /\ statsOut = Null
  /\ calls = EmptyBag
  /\ itemsResp = NoItemsResponse
  /\ created = {}
  /\ BrowserInit

\* ------------------------------------------------------------- helpers
\* if (statsCache): a summary object is truthy, null is not.
Hit == statsCache # Null

\* The reads in flight, and the bag with one added, removed or replaced.
InFlight == BagToSet(reads)
Issue(r) == reads (+) SetToBag({r})
Retire(r) == reads (-) SetToBag({r})

\* A modification makes every refresh in flight one of an earlier state of
\* the file (history only).
OutdatedReads ==
  LET olds == {[r EXCEPT !.cur = FALSE] : r \in InFlight}
  IN  [o \in olds |-> CopiesIn(o, reads) + CopiesIn([o EXCEPT !.cur = TRUE], reads)]

\* Date.now() - cacheTimestamp; null converts to 0.
cacheAgeOf(ts) == IF ts = Null THEN now ELSE now - ts[1]

\* fs.readFile(DATA_PATH, 'utf-8', callback) as loadStats issues it, for the
\* watcher listener ("watch") or for a request ("req"). cur is history: the
\* read is the refresh of the notification of the latest modification.
Pending == [st |-> "pending"]
NewRead(owner, cur) == [owner |-> owner, res |-> Pending, cur |-> cur]

\* ------------------------------------------------------------- actions
\* setupFileWatcher(), called once when the module is loaded; fs.watch
\* either returns a handle or throws (ok = FALSE), which is logged.
setupFileWatcher(ok) ==
  IF watcher # Null
  THEN UNCHANGED <<watcher, handles, log>>
  ELSE IF ok
       THEN /\ watcher' = Some("FSWatcher")
            /\ handles' = handles + 1
            /\ log' = log \cup {"File watcher initialized for stats caching"}
       ELSE /\ watcher' = Null
            /\ handles' = handles
            /\ log' = log \cup {"Error setting up file watcher:"}

\* Faulty variant: the module's top level runs again later in the process.
LoadModuleAgain ==
  /\ loaded' = TRUE
  /\ \E ok \in BOOLEAN : setupFileWatcher(ok)
  /\ UNCHANGED <<dataFile, statsCache, cacheTimestamp, events, reads, now, started,
                 resp, settled, quiet, cleared, itemsArg, statsOut, calls, itemsResp, created, browser>>

LoadModule ==
  /\ ~loaded
  /\ loaded' = TRUE
  /\ \E ok \in BOOLEAN : setupFileWatcher(ok)
  /\ UNCHANGED <<dataFile, statsCache, cacheTimestamp, events, reads, now, started,
                 resp, settled, quiet, cleared, itemsArg, statsOut, calls, itemsResp, created, browser>>

\* The file is modified; a watcher that is open queues a notification of the
\* given type ('change' for a write in place, 'rename' for a replacement).
Modify(c, type) ==
  /\ dataFile' = c
  /\ settled' = FALSE
  /\ reads' = OutdatedReads
  /\ IF watcher # Null
     THEN /\ Len(events) < MaxEvents
          /\ events' = Append(events, type)
     ELSE events' = events
  /\ UNCHANGED <<statsCache, cacheTimestamp, watcher, loaded, now, started, resp, log,
                 quiet, cleared, handles, itemsArg, statsOut, calls, itemsResp, created, browser>>

WriteFile == \E c \in Contents : Modify(c, "change")

ReplaceFile == \E c \in Contents : Modify(c, "rename")

\* Faulty variant: the listener reloads without invalidating first.
onWatchEventNoInvalidate(eventType, latest) ==
  IF eventType = "change"
  THEN /\ UNCHANGED <<statsCache, cacheTimestamp>>
       /\ BagCardinality(reads) < MaxReads
       /\ reads' = Issue(NewRead("watch", latest))
       /\ log' = log \cup {"Data file changed, invalidating stats cache..."}
       /\ quiet' = FALSE
       /\ cleared' = TRUE
  ELSE UNCHANGED <<statsCache, cacheTimestamp, reads, log, quiet, cleared>>

\* Faulty variant: the listener invalidates and starts no reload.
onWatchEventNoReload(eventType, latest) ==
  IF eventType = "change"
  THEN /\ statsCache' = Null
       /\ cacheTimestamp' = Null
       /\ reads' = reads
       /\ log' = log \cup {"Data file changed, invalidating stats cache..."}
       /\ quiet' = FALSE
       /\ cleared' = TRUE
  ELSE UNCHANGED <<statsCache, cacheTimestamp, reads, log, quiet, cleared>>

\* Faulty variant: the listener clears the summary and keeps its timestamp.
onWatchEventKeepsStamp(eventType, latest) ==
  IF eventType = "change"
  THEN /\ statsCache' = Null
       /\ cacheTimestamp' = cacheTimestamp
       /\ BagCardinality(reads) < MaxReads
       /\ reads' = Issue(NewRead("watch", latest))
       /\ log' = log \cup {"Data file changed, invalidating stats cache..."}
       /\ quiet' = FALSE
       /\ cleared' = TRUE
  ELSE UNCHANGED <<statsCache, cacheTimestamp, reads, log, quiet, cleared>>

\* Faulty variant: the listener does not look at the type of the event.
onWatchEventAnyType(eventType, latest) ==
  /\ statsCache' = Null
  /\ cacheTimestamp' = Null
  /\ BagCardinality(reads) < MaxReads
  /\ reads' = Issue(NewRead("watch", latest))
  /\ log' = log \cup {"Data file changed, invalidating stats cache..."}
  /\ quiet' = FALSE
  /\ cleared' = TRUE

\* The fs.watch listener, up to its await. latest is history: the
\* notification is the one of the latest modification.
onWatchEvent(eventType, latest) ==
  IF eventType = "change"
  THEN /\ statsCache' = Null
       /\ cacheTimestamp' = Null
       /\ BagCardinality(reads) < MaxReads
       /\ reads' = Issue(NewRead("watch", latest))
       /\ log' = log \cup {"Data file changed, invalidating stats cache..."}
       /\ quiet' = FALSE
       /\ cleared' = TRUE
  ELSE UNCHANGED <<statsCache, cacheTimestamp, reads, log, quiet, cleared>>

DeliverEvent ==
  /\ watcher # Null
  /\ events # << >>
  /\ onWatchEvent(Head(events), Len(events) = 1)
  /\ events' = Tail(events)
  /\ UNCHANGED <<dataFile, watcher, loaded, now, started, resp, settled, handles,
                 itemsArg, statsOut, calls, itemsResp, created, browser>>

\* Faulty variant: the read of a request is not served while a background
\* refresh is in flight.
FsReadBehindRefresh(r) ==
  /\ r.res = Pending
  /\ r.owner = "req" => ~\E w \in InFlight : w.owner = "watch"
  /\ reads' = Retire(r) (+) SetToBag({[r EXCEPT !.res = [st |-> "data", raw |-> dataFile]]})
  /\ UNCHANGED <<dataFile, statsCache, cacheTimestamp, watcher, loaded, events, now,
                 started, resp, log, settled, quiet, cleared, handles, itemsArg,
                 statsOut, calls, itemsResp, created, browser>>

\* The filesystem serves a read that was issued: the bytes of the file as
\* they are now.
FsRead(r) ==
  /\ r.res = Pending
  /\ reads' = Retire(r) (+) SetToBag({[r EXCEPT !.res = [st |-> "data", raw |-> dataFile]]})
  /\ UNCHANGED <<dataFile, statsCache, cacheTimestamp, watcher, loaded, events, now,
                 started, resp, log, settled, quiet, cleared, handles, itemsArg,
                 statsOut, calls, itemsResp, created, browser>>

ServeRead == \E r \in InFlight : FsRead(r)

\* Whether loadStats's promise resolves for this read: no I/O error (err),
\* and the text parses.
Resolves(r, err) == ~err /\ r.res.raw.valid

\* Faulty variant: the callback keeps an entry that is already there.
StoreEntryKeepsFirst(stats) ==
  /\ statsCache' = IF Hit THEN statsCache ELSE Some(stats)
  /\ cacheTimestamp' = IF Hit THEN cacheTimestamp ELSE Some(now)
  /\ cleared' = FALSE

\* Faulty variant: the callback stores the summary without stamping it.
StoreEntryUnstamped(stats) ==
  /\ statsCache' = Some(stats)
  /\ cacheTimestamp' = cacheTimestamp
  /\ cleared' = FALSE

\* What the readFile callback of loadStats stores.
StoreEntry(stats) ==
  /\ statsCache' = Some(stats)
  /\ cacheTimestamp' = Some(now)
  /\ cleared' = FALSE

\* Faulty variant: a failed recomputation is answered 200 with the empty
\* summary instead of being passed to next.
AnswerSwallowsError(ok, stats) ==
  [status |-> 200, body |-> Some(IF ok THEN stats ELSE EmptyStats),
   cached |-> Some(FALSE), cacheAge |-> Null]

\* What the handler sends after its await: the summary, or the error handler's
\* answer to next(err).
Answer(ok, stats) ==
  IF ok
  THEN [status |-> 200, body |-> Some(stats), cached |-> Some(FALSE), cacheAge |-> Null]
  ELSE [status |-> 500, body |-> Null, cached |-> Null, cacheAge |-> Null]

\* Faulty variant: a failed background refresh is not caught by the listener and is
\* answered to the client like a failed request.
afterLoadRethrows(r, ok, stats) ==
  IF r.owner = "watch" /\ ok
  THEN /\ log' = log \cup {"Stats cache refreshed"}
       /\ settled' = (settled \/ r.cur)
       /\ UNCHANGED <<resp, quiet>>
  ELSE /\ resp' = Answer(ok, stats)
       /\ quiet' = (quiet \/ ok)
       /\ UNCHANGED <<log, settled>>

\* The continuation of `await loadStats()` in its caller: the watcher
\* listener logs the outcome (an error is caught there), the GET handler
\* responds.
afterLoad(r, ok, stats) ==
  IF r.owner = "watch"
  THEN /\ log' = log \cup {IF ok THEN "Stats cache refreshed"
                           ELSE "Error refreshing stats cache:"}
       /\ settled' = (settled \/ (ok /\ r.cur))
       /\ UNCHANGED <<resp, quiet>>
  ELSE /\ resp' = Answer(ok, stats)
       /\ quiet' = (quiet \/ ok)
       /\ UNCHANGED <<log, settled>>

\* The readFile callback of loadStats, then the continuation of its caller.
\* The read ends with an I/O error (err) or with the bytes it was served.
ReadDone(r, err) ==
  LET ok == Resolves(r, err)
      stats == calculateStats(r.res.raw.items)
  IN  /\ err \/ r.res # Pending
      /\ reads' = Retire(r)
      /\ IF ok THEN StoreEntry(stats)
         ELSE UNCHANGED <<statsCache, cacheTimestamp, cleared>>
      /\ afterLoad(r, ok, stats)
      /\ UNCHANGED <<dataFile, watcher, loaded, events, now, started, handles,
                     itemsArg, statsOut, calls, itemsResp, created, browser>>

CompleteRead == \E r \in InFlight, err \in BOOLEAN : ReadDone(r, err)

\* Faulty variant: the handler reports the clock as the age of the entry.
GetStatsAgeIsClock ==
  /\ loaded
  /\ started' = TRUE
  /\ IF Hit
     THEN /\ resp' = [status |-> 200, body |-> statsCache, cached |-> Some(TRUE),
                      cacheAge |-> Some(now)]
          /\ quiet' = TRUE
          /\ reads' = reads
     ELSE /\ BagCardinality(reads) < MaxReads
          /\ reads' = Issue(NewRead("req", FALSE))
          /\ UNCHANGED <<resp, quiet>>
  /\ UNCHANGED <<dataFile, statsCache, cacheTimestamp, watcher, loaded, events, now,
                 log, settled, cleared, handles, itemsArg, statsOut, calls, itemsResp, created, browser>>

\* router.get('/'), up to its response or its await.
GetStats ==
  /\ loaded
  /\ started' = TRUE
  /\ IF Hit
     THEN /\ resp' = [status |-> 200, body |-> statsCache, cached |-> Some(TRUE),
                      cacheAge |-> Some(cacheAgeOf(cacheTimestamp))]
          /\ quiet' = TRUE
          /\ reads' = reads
     ELSE /\ BagCardinality(reads) < MaxReads
          /\ reads' = Issue(NewRead("req", FALSE))
          /\ UNCHANGED <<resp, quiet>>
  /\ UNCHANGED <<dataFile, statsCache, cacheTimestamp, watcher, loaded, events, now,
                 log, settled, cleared, handles, itemsArg, statsOut, calls, itemsResp, created, browser>>

\* Faulty variant: cleanup closes the handle and keeps the reference to it.
CleanupKeepsHandle ==
  /\ loaded
  /\ IF watcher # Null
     THEN /\ handles' = handles - 1
          /\ watcher' = watcher
          /\ events' = << >>
     ELSE UNCHANGED <<watcher, handles, events>>
  /\ UNCHANGED <<dataFile, statsCache, cacheTimestamp, loaded, reads, now, started,
                 resp, log, settled, quiet, cleared, itemsArg, statsOut, calls, itemsResp, created, browser>>

\* Faulty variant: cleanup also resets the cache.
CleanupClearsCache ==
  /\ loaded
  /\ IF watcher # Null
     THEN /\ handles' = handles - 1
          /\ watcher' = Null
          /\ events' = << >>
     ELSE UNCHANGED <<watcher, handles, events>>
  /\ statsCache' = Null
  /\ cacheTimestamp' = Null
  /\ UNCHANGED <<dataFile, loaded, reads, now, started, resp, log, settled, quiet, cleared,
                 itemsArg, statsOut, calls, itemsResp, created, browser>>

\* Faulty variant: cleanup invalidates for a 'change' notification that is still
\* queued before it closes the watcher.
CleanupFlushesEvents ==
  /\ loaded
  /\ IF watcher # Null
     THEN /\ handles' = handles - 1
          /\ watcher' = Null
          /\ events' = << >>
          /\ statsCache' = (IF events # << >> /\ Head(events) = "change"
                            THEN Null ELSE statsCache)
          /\ cacheTimestamp' = (IF events # << >> /\ Head(events) = "change"
                                THEN Null ELSE cacheTimestamp)
     ELSE UNCHANGED <<watcher, handles, events, statsCache, cacheTimestamp>>
  /\ UNCHANGED <<dataFile, loaded, reads, now, started,
                 resp, log, settled, quiet, cleared, itemsArg, statsOut, calls, itemsResp, created, browser>>

\* router._cleanup; a closed watcher delivers nothing more.
Cleanup ==
  /\ loaded
  /\ IF watcher # Null
     THEN /\ handles' = handles - 1
          /\ watcher' = Null
          /\ events' = << >>
     ELSE UNCHANGED <<watcher, handles, events>>
  /\ UNCHANGED <<dataFile, statsCache, cacheTimestamp, loaded, reads, now, started,
                 resp, log, settled, quiet, cleared, itemsArg, statsOut, calls, itemsResp, created, browser>>

\* Faulty variant: an entry expires when time passes.
TickExpires ==
  /\ now < MaxClock
  /\ now' = now + 1
  /\ statsCache' = Null
  /\ cacheTimestamp' = Null
  /\ UNCHANGED <<dataFile, watcher, loaded, events, reads,
                 started, resp, log, settled, quiet, cleared, handles, itemsArg,
                 statsOut, calls, itemsResp, created, browser>>

\* Time passes.
Tick ==
  /\ now < MaxClock
  /\ now' = now + 1
  /\ UNCHANGED <<dataFile, statsCache, cacheTimestamp, watcher, loaded, events, reads,
                 started, resp, log, settled, quiet, cleared, handles, itemsArg,
                 statsOut, calls, itemsResp, created, browser>>

Next ==
  \/ LoadModule
  \/ WriteFile
  \/ ReplaceFile
  \/ DeliverEvent
  \/ ServeRead
  \/ CompleteRead
  \/ GetStats
  \/ Cleanup
  \/ Tick

Spec == Init /\ [][Next]_vars

\* The store read of a request completes: the filesystem serves it and its
\* callback runs, with the bytes or with an I/O error. Nothing is assumed of
\* the watcher, of its notifications or of the reads of background refreshes.
ReqProgress ==
  \E r \in InFlight :
    /\ r.owner = "req"
    /\ \/ FsRead(r)
       \/ r.res # Pending /\ \E err \in BOOLEAN : ReadDone(r, err)

LiveSpec == Spec /\ WF_vars(ReqProgress)

\* ------------------------------------------ calculateStats on its own
\* The arrays calculateStats is given: items with a price (a non-negative
\* number, here in thousandths) and a category, as POST /api/items accepts
\* them: any non-empty string is a category, "constructor" as well as
\* "Electronics". 0.125 and 0.375 have a third decimal of 5, and so have sums and
\* averages of these prices; on every array of these prices up to length
\* MaxLen + 1 the code's double arithmetic gives the exactly rounded values.
Prices == {0, 125, 375, 29990}
Categories == {"Electronics", "electronics", "Furniture", "constructor"}

PushItem ==
  /\ Len(itemsArg) < MaxLen
  /\ \E p \in Prices, c \in Categories :
       itemsArg' = Append(itemsArg, [id |-> Len(itemsArg) + 1, name |-> "Item",
                                     category |-> c, price |-> p])
  /\ statsOut' = Null
  /\ UNCHANGED <<dataFile, statsCache, cacheTimestamp, watcher, loaded, events, reads,
                 now, started, resp, log, settled, quiet, cleared, handles, calls,
                 itemsResp, created, browser>>

\* const stats = calculateStats(items)
CallCalculateStats ==
  /\ statsOut = Null
  /\ calls = EmptyBag
  /\ itemsResp = NoItemsResponse
  /\ created = {}
  /\ statsOut' = Some(calculateStats(itemsArg))
  /\ UNCHANGED <<dataFile, statsCache, cacheTimestamp, watcher, loaded, events, reads,
                 now, started, resp, log, settled, quiet, cleared, handles, itemsArg,
                 calls, itemsResp, created, browser>>

CalcNext ==
  \/ PushItem
  \/ CallCalculateStats

CalcSpec == Init /\ [][CalcNext]_vars

\* ------------------------------------------------------ routes/items.js
\* Strings of request bodies, of query parameters and of stored items are
\* sequences of characters; " " stands for the white space trim() removes.
IsSpace(ch) == ch = " "
RECURSIVE trimStart(_)
trimStart(s) == IF s # << >> /\ IsSpace(Head(s)) THEN trimStart(Tail(s)) ELSE s
RECURSIVE trimEnd(_)
trimEnd(s) ==
  IF s # << >> /\ IsSpace(s[Len(s)]) THEN trimEnd(SubSeq(s, 1, Len(s) - 1)) ELSE s
\* String.prototype.trim
trim(s) == trimEnd(trimStart(s))
\* String.prototype.toLowerCase
lowerOf(ch) == CASE ch = "A" -> "a" [] ch = "B" -> "b" [] OTHER -> ch
toLowerCase(s) == [i \in DOMAIN s |-> lowerOf(s[i])]
\* String.prototype.includes
includes(s, t) ==
  \E i \in 1..(Len(s) - Len(t) + 1) : SubSeq(s, i, i + Len(t) - 1) = t

\* JavaScript values of a field of req.body or of req.query.
Undefined == [t |-> "undefined", n |-> 0, s |-> << >>]
Num(n) == [t |-> "number", n |-> n, s |-> << >>]
Str(s) == [t |-> "string", n |-> 0, s |-> s]
\* !x is false for: a non-zero number, a non-empty string.
Truthy(x) ==
  CASE x.t = "undefined" -> FALSE
    [] x.t = "number" -> x.n # 0
    [] x.t = "string" -> x.s # << >>

\* parseInt(x, 10) of a string of decimal digits, and of a number that is a
\* non-negative integer (the defaults 1 and 10).
DigitValue(ch) ==
  CASE ch = "0" -> 0 [] ch = "1" -> 1 [] ch = "2" -> 2 [] ch = "3" -> 3
    [] ch = "4" -> 4 [] ch = "5" -> 5 [] ch = "6" -> 6 [] ch = "7" -> 7
    [] ch = "8" -> 8 [] ch = "9" -> 9
RECURSIVE parseDigits(_, _)
parseDigits(s, acc) ==
  IF s = << >> THEN acc ELSE parseDigits(Tail(s), 10 * acc + DigitValue(Head(s)))
parseInt10(x) == IF x.t = "number" THEN x.n ELSE parseDigits(x.s, 0)

\* The bodies POST /api/items is sent: a valid one (a name and a category with
\* white space around them, a price of 0) and ones with one offending field.
PaddedBody ==
  [name |-> Str(<<" ", "A", "b">>), category |-> Str(<<"b", " ">>), price |-> Num(0)]
ValidBodies == {PaddedBody}
BadStrings == {Undefined, Num(5), Str(<< >>), Str(<<" ", " ">>)}
BadPrices == {Undefined, Str(<<"5">>), Num(-1)}
InvalidBodies ==
  {[PaddedBody EXCEPT !.name = x] : x \in BadStrings}
    \cup {[PaddedBody EXCEPT !.category = x] : x \in BadStrings}
    \cup {[PaddedBody EXCEPT !.price = x] : x \in BadPrices}
Bodies == ValidBodies \cup InvalidBodies

\* The query strings GET /api/items is sent.
Queries ==
  [page : {Undefined, Str(<<"2">>)},
   limit : {Undefined, Str(<<"1">>)},
   q : {Undefined, Str(<<"a">>), Str(<<" ", "B">>), Str(<<" ">>)}]

\* The data file when the items router starts: an empty array, or text that
\* does not parse.
ItemsInit ==
  /\ dataFile \in {JsonOf(<< >>), BadJson}
  /\ statsCache = Null
  /\ cacheTimestamp = Null
  /\ watcher = Null
  /\ loaded = FALSE
  /\ events = << >>
  /\ reads = EmptyBag
  /\ now = 0
  /\ started = FALSE
  /\ resp = NoResponse
  /\ log = {}
  /\ settled = FALSE
  /\ quiet = FALSE
  /\ cleared = FALSE
  /\ handles = 0
  /\ itemsArg = << >>
  /\ statsOut = Null
  /\ calls = EmptyBag
  /\ itemsResp = NoItemsResponse
  /\ created = {}
  /\ BrowserInit

\* What the application's error middleware sends for next(err):
\* res.status(err.status || 500).json({ error: err.message }).
ErrorResponse(status, message) == [status |-> status, body |-> Some([error |-> message])]
IoError == "store read or write failed"

\* A request of the items router that is waiting for the store.
NewCall(kind, req) ==
  [kind |-> kind, req |-> req, st |-> "reading", raw |-> Null, item |-> Null,
   data |-> << >>]
CallsInFlight == BagToSet(calls)
PostsInFlight == {c \in CallsInFlight : c.kind = "post"}
Replace(c, d) == (calls (-) SetToBag({c})) (+) SetToBag({d})

\* Faulty variant: the price is not validated.
validateNoPrice(body) ==
  IF ~Truthy(body.name) \/ body.name.t # "string" \/ Len(trim(body.name.s)) = 0
  THEN Some("Name is required and must be a non-empty string")
  ELSE IF ~Truthy(body.category) \/ body.category.t # "string"
            \/ Len(trim(body.category.s)) = 0
  THEN Some("Category is required and must be a non-empty string")
  ELSE Null

\* The validation of router.post: the message of the first check that fails,
\* or Null.
validate(body) ==
  IF ~Truthy(body.name) \/ body.name.t # "string" \/ Len(trim(body.name.s)) = 0
  THEN Some("Name is required and must be a non-empty string")
  ELSE IF ~Truthy(body.category) \/ body.category.t # "string"
            \/ Len(trim(body.category.s)) = 0
  THEN Some("Category is required and must be a non-empty string")
  ELSE IF body.price.t = "undefined" \/ body.price.t # "number" \/ body.price.n < 0
  THEN Some("Price is required and must be a non-negative number")
  ELSE Null

\* router.post('/'), up to its response or its first await (readData).
PostItems(body) ==
  /\ IF validate(body) # Null
     THEN /\ itemsResp' = ErrorResponse(400, validate(body)[1])
          /\ calls' = calls
     ELSE /\ BagCardinality(calls) < MaxPosts
          /\ calls' = calls (+) SetToBag({NewCall("post", body)})
          /\ itemsResp' = NoItemsResponse
  /\ UNCHANGED <<dataFile, statsCache, cacheTimestamp, watcher, loaded, events, reads,
                 now, started, resp, log, settled, quiet, cleared, handles, itemsArg,
                 statsOut, created, browser>>

PostRequest == \E body \in Bodies : PostItems(body)

\* router.get('/'), up to its await (readData).
GetItems(query) ==
  /\ BagCardinality(calls) < MaxLists
  /\ calls' = calls (+) SetToBag({NewCall("get", query)})
  /\ itemsResp' = NoItemsResponse
  /\ UNCHANGED <<dataFile, statsCache, cacheTimestamp, watcher, loaded, events, reads,
                 now, started, resp, log, settled, quiet, cleared, handles, itemsArg,
                 statsOut, created, browser>>

GetRequest == \E query \in Queries : GetItems(query)

\* The filesystem serves the fs.readFile of readData: the text of the file as
\* it is now.
ItemsFsRead(c) ==
  /\ c.st = "reading"
  /\ calls' = Replace(c, [c EXCEPT !.st = "read", !.raw = Some(dataFile)])
  /\ itemsResp' = NoItemsResponse
  /\ UNCHANGED <<dataFile, statsCache, cacheTimestamp, watcher, loaded, events, reads,
                 now, started, resp, log, settled, quiet, cleared, handles, itemsArg,
                 statsOut, created, browser>>

ServeItemsRead == \E c \in CallsInFlight : ItemsFsRead(c)

\* Faulty variant: the new item is put in front of the array.
pushedFirst(data, newItem) == <<newItem>> \o data

\* data.push(newItem)
pushed(data, newItem) == Append(data, newItem)

\* Faulty variant: the name is stored as it was sent.
newItemUntrimmed(body, id) ==
  [id |-> id, name |-> body.name.s, category |-> trim(body.category.s),
   price |-> body.price.n]

\* const newItem = { id: Date.now(), name: name.trim(), category:
\* category.trim(), price }
newItem(body, id) ==
  [id |-> id, name |-> trim(body.name.s), category |-> trim(body.category.s),
   price |-> body.price.n]

\* router.post after `await readData()`: the read failed or the text does not
\* parse (next(err)), or the new item is built, pushed, and writeData is
\* called with the whole array.
PostAfterRead(c, err) ==
  /\ c.kind = "post"
  /\ err \/ c.st = "read"
  /\ IF err \/ ~c.raw[1].valid
     THEN /\ itemsResp' = ErrorResponse(500, IoError)
          /\ calls' = calls (-) SetToBag({c})
     ELSE /\ Len(c.raw[1].items) < MaxStore
          /\ calls' = Replace(c, [c EXCEPT !.st = "writing",
                                           !.item = Some(newItem(c.req, now)),
                                           !.data = pushed(c.raw[1].items,
                                                           newItem(c.req, now))])
          /\ itemsResp' = NoItemsResponse
  /\ UNCHANGED <<dataFile, statsCache, cacheTimestamp, watcher, loaded, events, reads,
                 now, started, resp, log, settled, quiet, cleared, handles, itemsArg,
                 statsOut, created, browser>>

ContinuePost == \E c \in CallsInFlight, err \in BOOLEAN : PostAfterRead(c, err)

\* The filesystem performs the fs.writeFile of writeData: the file becomes the
\* JSON of the array it was given, or the write fails and leaves the file.
ItemsFsWrite(c, err) ==
  /\ c.st = "writing"
  /\ IF err
     THEN /\ dataFile' = dataFile
          /\ calls' = Replace(c, [c EXCEPT !.st = "failed"])
     ELSE /\ dataFile' = JsonOf(c.data)
          /\ calls' = Replace(c, [c EXCEPT !.st = "written"])
  /\ itemsResp' = NoItemsResponse
  /\ UNCHANGED <<statsCache, cacheTimestamp, watcher, loaded, events, reads,
                 now, started, resp, log, settled, quiet, cleared, handles, itemsArg,
                 statsOut, created, browser>>

ServeItemsWrite == \E c \in CallsInFlight, err \in BOOLEAN : ItemsFsWrite(c, err)

\* router.post after `await writeData(data)`: 201 with the new item, or
\* next(err).
PostAfterWrite(c) ==
  /\ c.st \in {"written", "failed"}
  /\ calls' = calls (-) SetToBag({c})
  /\ IF c.st = "written"
     THEN /\ itemsResp' = [status |-> 201, body |-> c.item]
          /\ created' = created \cup {c.item[1]}
     ELSE /\ itemsResp' = ErrorResponse(500, IoError)
          /\ created' = created
  /\ UNCHANGED <<dataFile, statsCache, cacheTimestamp, watcher, loaded, events, reads,
                 now, started, resp, log, settled, quiet, cleared, handles, itemsArg,
                 statsOut,
                 browser>>

RespondPost == \E c \in CallsInFlight : PostAfterWrite(c)

\* results.filter(...) of router.get.
RECURSIVE filterItems(_, _)
filterItems(items, searchTerm) ==
  IF items = << >> THEN << >>
  ELSE LET item == Head(items)
           rest == filterItems(Tail(items), searchTerm)
       IN  IF includes(toLowerCase(item.name), searchTerm)
              \/ includes(toLowerCase(item.category), searchTerm)
           THEN <<item>> \o rest
           ELSE rest

\* Array.prototype.slice(start, end) for 0 <= start <= end.
slice(arr, start, end) ==
  SubSeq(arr, start + 1, IF end < Len(arr) THEN end ELSE Len(arr))

\* Faulty variant: hasMore looks at the start of the page, not at its end.
listItemsHasMoreFromStart(data, query) ==
  LET page == IF query.page.t = "undefined" THEN Num(1) ELSE query.page
      limit == IF query.limit.t = "undefined" THEN Num(10) ELSE query.limit
      results == IF Truthy(query.q)
                 THEN filterItems(data, trim(toLowerCase(query.q.s)))
                 ELSE data
      pageNum == parseInt10(page)
      limitNum == parseInt10(limit)
      startIndex == (pageNum - 1) * limitNum
      endIndex == startIndex + limitNum
  IN  [data |-> slice(results, startIndex, endIndex),
       pagination |-> [page |-> pageNum, limit |-> limitNum, total |-> Len(results),
                       totalPages |-> (Len(results) + limitNum - 1) \div limitNum,
                       hasMore |-> startIndex < Len(results)]]

\* The body router.get answers with, from the array read and the query.
listItems(data, query) ==
  LET page == IF query.page.t = "undefined" THEN Num(1) ELSE query.page
      limit == IF query.limit.t = "undefined" THEN Num(10) ELSE query.limit
      results == IF Truthy(query.q)
                 THEN filterItems(data, trim(toLowerCase(query.q.s)))
                 ELSE data
      pageNum == parseInt10(page)
      limitNum == parseInt10(limit)
      startIndex == (pageNum - 1) * limitNum
      endIndex == startIndex + limitNum
  IN  [data |-> slice(results, startIndex, endIndex),
       pagination |-> [page |-> pageNum, limit |-> limitNum, total |-> Len(results),
                       totalPages |-> (Len(results) + limitNum - 1) \div limitNum,
                       hasMore |-> endIndex < Len(results)]]

\* router.get after `await readData()`.
GetAfterRead(c, err) ==
  /\ c.kind = "get"
  /\ err \/ c.st = "read"
  /\ calls' = calls (-) SetToBag({c})
  /\ IF err \/ ~c.raw[1].valid
     THEN itemsResp' = ErrorResponse(500, IoError)
     ELSE itemsResp' = [status |-> 200, body |-> Some(listItems(c.raw[1].items, c.req))]
  /\ UNCHANGED <<dataFile, statsCache, cacheTimestamp, watcher, loaded, events, reads,
                 now, started, resp, log, settled, quiet, cleared, handles, itemsArg,
                 statsOut, created, browser>>

RespondGet == \E c \in CallsInFlight, err \in BOOLEAN : GetAfterRead(c, err)

\* POST /api/items on its own: the requests, the filesystem serving their
\* reads and writes, and the clock.
PostNext ==
  \/ PostRequest
  \/ ServeItemsRead
  \/ ContinuePost
  \/ ServeItemsWrite
  \/ RespondPost
  \/ Tick

PostSpec == ItemsInit /\ [][PostNext]_vars

\* The items the store holds when it is listed, and the texts of the file.
StoredItems ==
  {newItem(PaddedBody, 0),
   [id |-> 1, name |-> <<"a">>, category |-> <<"A">>, price |-> 125]}
RECURSIVE SeqsUpTo(_, _)
SeqsUpTo(S, n) ==
  IF n = 0 THEN {<< >>}
  ELSE LET shorter == SeqsUpTo(S, n - 1)
       IN  shorter \cup {Append(q, x) : q \in shorter, x \in S}
ListContents == {JsonOf(q) : q \in SeqsUpTo(StoredItems, MaxStore)} \cup {BadJson}

\* The file is rewritten (by POST /api/items, or from outside).
RewriteStore ==
  /\ \E c \in ListContents : dataFile' = c
  /\ itemsResp' = NoItemsResponse
  /\ UNCHANGED <<statsCache, cacheTimestamp, watcher, loaded, events, reads,
                 now, started, resp, log, settled, quiet, cleared, handles, itemsArg,
                 statsOut, calls, created, browser>>

\* GET /api/items on its own, over a store that changes under it.
ListNext ==
  \/ RewriteStore
  \/ GetRequest
  \/ ServeItemsRead
  \/ RespondGet

ListSpec == ItemsInit /\ [][ListNext]_vars

\* ----------------------------------------------------------- the frontend
\* DataProvider (state/DataContext.js) and the two pages that fetch through
\* it, pages/Items.js and pages/ItemDetail.js. One action is one callback of
\* the browser: an event handler, a timer, React's flush of the passive
\* effects of a commit (every cleanup that is due, then every effect that is
\* due), or the settling of a promise together with the continuations it
\* resumes: these are microtasks, and nothing else runs between them.
\* React flushes the passive effects of a commit before it renders again, so
\* a handler that causes a render runs with no effect pending.
BackendVars ==
  <<dataFile, statsCache, cacheTimestamp, watcher, loaded, events, reads, now,
    started, resp, log, settled, quiet, cleared, handles, itemsArg, statsOut,
    calls, itemsResp, created>>

\* What the pages are given to show and to search for.
ItemIds == {1, 2}
SearchQueries == {"", "a"}

\* The errors a fetch can end in. An aborted fetch rejects with a
\* DOMException named AbortError; a failed connection with a TypeError;
\* a body that is not JSON makes res.json() reject with a SyntaxError.
AbortError == [name |-> "AbortError", message |-> "The user aborted a request."]
NetworkError == [name |-> "TypeError", message |-> "Failed to fetch"]
SyntaxError == [name |-> "SyntaxError", message |-> "Unexpected token"]
\* throw new Error(`HTTP error! status: ${res.status}`)
HttpError(status) ==
  [name |-> "Error",
   message |-> IF status = 404 THEN "HTTP error! status: 404"
               ELSE "HTTP error! status: 500"]

\* The bodies the API answers GET /api/items with, for a request of page
\* `page`: a page of a two-page listing (its one item is numbered as the
\* page), an empty listing, the bare array of the old format, and an object
\* without data.
PageOfTwo(page) ==
  [kind |-> "paged", data |-> <<page>>,
   pagination |-> [page |-> page, limit |-> 20, total |-> 21, totalPages |-> 2,
                   hasMore |-> page < 2]]
NoMatches(page) ==
  [kind |-> "paged", data |-> << >>,
   pagination |-> [page |-> page, limit |-> 20, total |-> 0, totalPages |-> 0,
                   hasMore |-> FALSE]]
OldFormat == [kind |-> "array", data |-> <<1, 2>>, pagination |-> InitialPagination]
OtherObject == [kind |-> "object", data |-> << >>, pagination |-> InitialPagination]
ListBodies(page) == {PageOfTwo(page), NoMatches(page), OldFormat, OtherObject}

\* signal.aborted: the platform sees an abort only through the signal the
\* fetch was given.
SignalAborted(r) == r.signal # Null /\ r.signal[1] \in aborted

\* How `await fetch(url, { signal })` can settle: a rejection, or a response
\* with a status.
Rejection(err) == [err |-> Some(err), status |-> 0]
Response(status) == [err |-> Null, status |-> status]
FetchOutcomes(r) ==
  IF SignalAborted(r) THEN {Rejection(AbortError)}
  ELSE {Rejection(NetworkError), Response(200), Response(404), Response(500)}

\* The request of one run of a fetch effect. controller numbers the
\* AbortController the run created.
NewFetch(owner, n, signal, page, q, id) ==
  [owner |-> owner, controller |-> n, signal |-> signal, stage |-> "fetch",
   page |-> page, q |-> q, id |-> id, instance |-> itemDetail.instance]

\* ----- Items.js
\* The value of the dependency arrays of the two effects of Items.
FetchDeps == [currentPage |-> itemsPage.currentPage,
              debouncedQuery |-> itemsPage.debouncedQuery]

\* An effect is due when the component has mounted and the effect has not run
\* or its dependencies have changed; its cleanup is due when it has run and
\* the effect is due again or the component has unmounted.
FetchEffectDue ==
  /\ itemsPage.mounted
  /\ IF itemsPage.effect = Null THEN TRUE ELSE itemsPage.effect[1].deps # FetchDeps
FetchCleanupDue ==
  itemsPage.effect # Null /\ (FetchEffectDue \/ ~itemsPage.mounted)
DebounceDue ==
  /\ itemsPage.mounted
  /\ IF itemsPage.debounce = Null THEN TRUE
     ELSE itemsPage.debounce[1].searchQuery # itemsPage.searchQuery
DebounceCleanupDue ==
  itemsPage.debounce # Null /\ (DebounceDue \/ ~itemsPage.mounted)

\* ----- ItemDetail.js
LoadEffectDue ==
  /\ itemDetail.mounted
  /\ IF itemDetail.effect = Null THEN TRUE ELSE itemDetail.effect[1].id # itemDetail.id
LoadCleanupDue ==
  itemDetail.effect # Null /\ (LoadEffectDue \/ ~itemDetail.mounted)

EffectsPending ==
  \/ FetchEffectDue \/ FetchCleanupDue
  \/ DebounceDue \/ DebounceCleanupDue
  \/ LoadEffectDue \/ LoadCleanupDue

\* The synchronous start of fetchItems: setLoading(true); setError(null);
\* then fetch(url, { signal }).
fetchItemsStart == [provider EXCEPT !.loading = TRUE, !.error = Null]

\* The signal fetchItems hands to fetch for the controller numbered n.
fetchItemsSignal(n) == Some(n)

\* React flushes the passive effects of the commit: the cleanups that are due
\* (abortController.abort(), clearTimeout(timer)), then the effects that are
\* due (a new AbortController and fetchItems(...) or loadItem(), a new timer).
FlushPassiveEffects ==
  LET n == issued + 1
      runs == FetchEffectDue \/ LoadEffectDue
      cleaned == (IF FetchCleanupDue THEN {itemsPage.effect[1].controller} ELSE {})
                 \cup (IF LoadCleanupDue THEN {itemDetail.effect[1].controller} ELSE {})
  IN  /\ EffectsPending
      /\ runs => issued < MaxFetches
      /\ aborted' = aborted \cup cleaned
      /\ issued' = IF runs THEN n ELSE issued
      /\ fetches' =
           fetches
           \cup (IF FetchEffectDue
                 THEN {NewFetch("Items", n, fetchItemsSignal(n), itemsPage.currentPage,
                                itemsPage.debouncedQuery, 0)}
                 ELSE {})
           \cup (IF LoadEffectDue
                 THEN {NewFetch("ItemDetail", n, Some(n), 0, "", itemDetail.id)}
                 ELSE {})
      /\ provider' = IF FetchEffectDue THEN fetchItemsStart ELSE provider
      /\ itemsPage' =
           [itemsPage EXCEPT
              !.effect = IF FetchEffectDue THEN Some([controller |-> n, deps |-> FetchDeps])
                         ELSE IF FetchCleanupDue THEN Null ELSE @,
              !.debounce = IF DebounceDue
                           THEN Some([searchQuery |-> itemsPage.searchQuery,
                                      pending |-> TRUE])
                           ELSE IF DebounceCleanupDue THEN Null ELSE @]
      /\ itemDetail' =
           [itemDetail EXCEPT
              !.effect = IF LoadEffectDue
                         THEN Some([controller |-> n, id |-> itemDetail.id])
                         ELSE IF LoadCleanupDue THEN Null ELSE @,
              !.loading = IF LoadEffectDue THEN TRUE ELSE @,
              !.error = IF LoadEffectDue THEN Null ELSE @]
      /\ UNCHANGED <<redirects, BackendVars>>

\* What a component leaves behind when the router unmounts it: its state is
\* gone, its effects are still to be cleaned up.
UnmountedItems ==
  [NoItemsPage EXCEPT !.debounce = itemsPage.debounce, !.effect = itemsPage.effect]
UnmountedDetail == [NoItemDetail EXCEPT !.effect = itemDetail.effect]

\* The router renders "/": ItemDetail, if shown, unmounts and Items mounts.
ShowItems ==
  /\ itemsPage' = [NoItemsPage EXCEPT !.mounted = TRUE]
  /\ itemDetail' = UnmountedDetail

\* The user opens "/".
OpenItems ==
  /\ ~EffectsPending
  /\ ~itemsPage.mounted
  /\ ShowItems
  /\ UNCHANGED <<provider, fetches, aborted, issued, redirects, BackendVars>>

\* The user opens "/items/:id" (a Link of the list, or the address bar).
OpenItemDetail ==
  /\ ~EffectsPending
  /\ ~itemDetail.mounted
  /\ \E id \in ItemIds :
       itemDetail' = [NoItemDetail EXCEPT !.mounted = TRUE, !.id = id,
                                          !.instance = issued + 1]
  /\ itemsPage' = UnmountedItems
  /\ UNCHANGED <<provider, fetches, aborted, issued, redirects, BackendVars>>

\* The user moves in the history from one "/items/:id" to another: the same
\* ItemDetail stays mounted and useParams() gives a new id.
ChangeItemId ==
  /\ ~EffectsPending
  /\ itemDetail.mounted
  /\ \E id \in ItemIds \ {itemDetail.id} : itemDetail' = [itemDetail EXCEPT !.id = id]
  /\ UNCHANGED <<provider, itemsPage, fetches, aborted, issued, redirects, BackendVars>>

\* The timer of setTimeout(() => navigate('/'), 2000) runs; it was never
\* cleared.
RedirectFires ==
  /\ ~EffectsPending
  /\ redirects > 0
  /\ redirects' = redirects - 1
  /\ IF itemsPage.mounted THEN UNCHANGED <<itemsPage, itemDetail>> ELSE ShowItems
  /\ UNCHANGED <<provider, fetches, aborted, issued, BackendVars>>

\* Items renders the search box and the list (and not the skeleton or the
\* error message).
ListShown ==
  /\ itemsPage.mounted
  /\ ~(provider.loading /\ Len(provider.items) = 0)
  /\ provider.error = Null
\* ... and under a list that is not empty, the pagination controls.
PaginationShown ==
  ListShown /\ Len(provider.items) > 0 /\ provider.pagination.totalPages > 1

\* onChange and the clear button of the search box: setSearchQuery(q).
setSearchQuery ==
  /\ ~EffectsPending
  /\ ListShown
  /\ \E q \in SearchQueries \ {itemsPage.searchQuery} :
       itemsPage' = [itemsPage EXCEPT !.searchQuery = q]
  /\ UNCHANGED <<provider, itemDetail, fetches, aborted, issued, redirects, BackendVars>>

\* The debounce timer runs: setDebouncedQuery(searchQuery); setCurrentPage(1).
DebounceFires ==
  /\ ~EffectsPending
  /\ itemsPage.mounted
  /\ itemsPage.debounce # Null
  /\ itemsPage.debounce[1].pending
  /\ itemsPage' = [itemsPage EXCEPT
                     !.debouncedQuery = itemsPage.debounce[1].searchQuery,
                     !.currentPage = 1,
                     !.debounce = Some([itemsPage.debounce[1] EXCEPT !.pending = FALSE])]
  /\ UNCHANGED <<provider, itemDetail, fetches, aborted, issued, redirects, BackendVars>>

\* setCurrentPage(prev => Math.max(1, prev - 1)), disabled on page 1.
handlePrevPage ==
  /\ ~EffectsPending
  /\ PaginationShown
  /\ itemsPage.currentPage # 1
  /\ itemsPage' = [itemsPage EXCEPT !.currentPage = IF @ - 1 > 1 THEN @ - 1 ELSE 1]
  /\ UNCHANGED <<provider, itemDetail, fetches, aborted, issued, redirects, BackendVars>>

\* setCurrentPage(prev => prev + 1), disabled when !pagination.hasMore.
handleNextPage ==
  /\ ~EffectsPending
  /\ PaginationShown
  /\ provider.pagination.hasMore
  /\ itemsPage.currentPage < MaxPage
  /\ itemsPage' = [itemsPage EXCEPT !.currentPage = @ + 1]
  /\ UNCHANGED <<provider, itemDetail, fetches, aborted, issued, redirects, BackendVars>>

\* setCurrentPage(page), for one of the page numbers shown.
handlePageChange ==
  /\ ~EffectsPending
  /\ PaginationShown
  /\ \E page \in (1 .. provider.pagination.totalPages) \ {itemsPage.currentPage} :
       itemsPage' = [itemsPage EXCEPT !.currentPage = page]
  /\ UNCHANGED <<provider, itemDetail, fetches, aborted, issued, redirects, BackendVars>>

\* ----- DataContext.js, fetchItems
\* Faulty variant: the catch block does not look at the name of the error.
fetchItemsCatchAnyError(err) ==
  [provider EXCEPT !.error = Some(err.message), !.loading = FALSE]

\* catch (err): if (err.name !== 'AbortError') { setError(err.message);
\* setLoading(false) }; throw err. Items only logs what is thrown.
fetchItemsCatch(err) ==
  IF err.name # "AbortError"
  THEN [provider EXCEPT !.error = Some(err.message), !.loading = FALSE]
  ELSE provider

\* if (json.data && json.pagination) { setItems; setPagination } else
\* setItems(Array.isArray(json) ? json : []); then setLoading(false).
fetchItemsStore(json) ==
  IF json.kind = "paged"
  THEN [provider EXCEPT !.items = json.data, !.pagination = json.pagination,
                        !.loading = FALSE]
  ELSE [provider EXCEPT !.items = IF json.kind = "array" THEN json.data ELSE << >>,
                        !.loading = FALSE]

\* `await fetch(...)` of fetchItems settles: on a rejection the catch block
\* runs; on a response, if (!res.ok) throws into the catch block, and
\* otherwise res.json() starts to read the body.
ItemsFetchSettles(r, out) ==
  /\ r.owner = "Items"
  /\ r.stage = "fetch"
  /\ IF out.err # Null
     THEN /\ provider' = fetchItemsCatch(out.err[1])
          /\ fetches' = fetches \ {r}
     ELSE IF out.status # 200
     THEN /\ provider' = fetchItemsCatch(HttpError(out.status))
          /\ fetches' = fetches \ {r}
     ELSE /\ provider' = provider
          /\ fetches' = (fetches \ {r}) \cup {[r EXCEPT !.stage = "json"]}
  /\ UNCHANGED <<itemsPage, itemDetail, aborted, issued, redirects, BackendVars>>

\* `await res.json()` of fetchItems settles: with AbortError if the signal
\* was aborted while the body was read, with SyntaxError or with the value.
ItemsBodySettles(r) ==
  /\ r.owner = "Items"
  /\ r.stage = "json"
  /\ fetches' = fetches \ {r}
  /\ IF SignalAborted(r)
     THEN provider' = fetchItemsCatch(AbortError)
     ELSE \/ provider' = fetchItemsCatch(SyntaxError)
          \/ \E json \in ListBodies(r.page) : provider' = fetchItemsStore(json)
  /\ UNCHANGED <<itemsPage, itemDetail, aborted, issued, redirects, BackendVars>>

\* ----- ItemDetail.js, loadItem over fetchItem
\* A setState of a component that has unmounted does nothing.
Rendered(r) == itemDetail.mounted /\ itemDetail.instance = r.instance

\* catch (err) of loadItem (fetchItem only logs and rethrows):
\* if (err.name !== 'AbortError') { setError; setLoading(false); setTimeout }.
loadItemCatch(r, err) ==
  IF err.name # "AbortError"
  THEN /\ redirects < MaxRedirects
       /\ redirects' = redirects + 1
       /\ itemDetail' = IF Rendered(r)
                        THEN [itemDetail EXCEPT !.error = Some(err.message),
                                                !.loading = FALSE]
                        ELSE itemDetail
  ELSE UNCHANGED <<redirects, itemDetail>>

\* `await fetch(...)` of fetchItem settles.
DetailFetchSettles(r, out) ==
  /\ r.owner = "ItemDetail"
  /\ r.stage = "fetch"
  /\ IF out.err # Null
     THEN /\ loadItemCatch(r, out.err[1])
          /\ fetches' = fetches \ {r}
     ELSE IF out.status # 200
     THEN /\ loadItemCatch(r, HttpError(out.status))
          /\ fetches' = fetches \ {r}
     ELSE /\ UNCHANGED <<redirects, itemDetail>>
          /\ fetches' = (fetches \ {r}) \cup {[r EXCEPT !.stage = "json"]}
  /\ UNCHANGED <<provider, itemsPage, aborted, issued, BackendVars>>

\* `return await res.json()` of fetchItem settles and loadItem goes on:
\* setItem(data); setLoading(false). The item of id n is written n.
DetailBodySettles(r) ==
  /\ r.owner = "ItemDetail"
  /\ r.stage = "json"
  /\ fetches' = fetches \ {r}
  /\ IF SignalAborted(r)
     THEN loadItemCatch(r, AbortError)
     ELSE \/ loadItemCatch(r, SyntaxError)
          \/ /\ itemDetail' = IF Rendered(r)
                              THEN [itemDetail EXCEPT !.item = Some(r.id),
                                                      !.loading = FALSE]
                              ELSE itemDetail
             /\ redirects' = redirects
  /\ UNCHANGED <<provider, itemsPage, aborted, issued, BackendVars>>

FetchSettles ==
  \E r \in fetches : \E out \in FetchOutcomes(r) :
    ItemsFetchSettles(r, out) \/ DetailFetchSettles(r, out)

BodySettles ==
  \E r \in fetches : ItemsBodySettles(r) \/ DetailBodySettles(r)

FrontendNext ==
  \/ OpenItems
  \/ OpenItemDetail
  \/ ChangeItemId
  \/ RedirectFires
  \/ setSearchQuery
  \/ DebounceFires
  \/ handlePrevPage
  \/ handleNextPage
  \/ handlePageChange
  \/ FlushPassiveEffects
  \/ FetchSettles
  \/ BodySettles

FrontendSpec == Init /\ [][FrontendNext]_vars

\* ------------------------------------------------------------ the claims
\* The summary of a file text that parses.
Parsed(text) == calculateStats(text.items)
\* A background refresh has been started and has not completed.
RefreshInFlight == \E r \in InFlight : r.owner = "watch"
\* The 200 bodies: a summary from the cache, and one freshly computed.
CachedBody(stats, age) ==
  [status |-> 200, body |-> Some(stats), cached |-> Some(TRUE), cacheAge |-> Some(age)]
FreshBody(stats) ==
  [status |-> 200, body |-> Some(stats), cached |-> Some(FALSE), cacheAge |-> Null]
Logged(line) == line \in log

\* C1: after the change notification of the latest modification has fired and
\* its background refresh has completed, a GET /api/stats answered from the
\* cache reports the summary of the file as it is now. (A request that finds
\* no entry reads the file itself, C3.)
C1_ReportsNewContents ==
  [][(GetStats /\ settled /\ Hit) => resp'.body = Some(Parsed(dataFile))]_vars

\* C2: a GET handled while an entry is present answers 200 with the stored
\* summary, cached:true and cacheAge = now - cacheTimestamp >= 0, issues no
\* store read and leaves the entry as it is.
C2_HitServedFromCache ==
  [][(GetStats /\ Hit) =>
       /\ cacheTimestamp # Null
       /\ now - cacheTimestamp[1] >= 0
       /\ resp' = CachedBody(statsCache[1], now - cacheTimestamp[1])
       /\ UNCHANGED <<statsCache, cacheTimestamp, reads>>]_vars

\* A request was answered from an entry that was one tick old.
C2_Witness ==
  /\ resp.status = 200
  /\ resp.cached = Some(TRUE)
  /\ resp.cacheAge = Some(1)
  /\ resp.body = statsCache
  /\ resp.body[1].total = 1

\* C3: a GET handled while no entry is present issues one store read, sends
\* nothing yet and leaves the cache alone; when that read succeeds and parses,
\* the request is answered with the summary of the text read, cached:false
\* and no cacheAge, and that summary is stored with the current time.
C3_MissReadsAndStores ==
  [][/\ (~Hit /\ GetStats) =>
          /\ reads' = Issue(NewRead("req", FALSE))
          /\ UNCHANGED <<resp, statsCache, cacheTimestamp>>
     /\ \A r \in InFlight :
          (r.owner = "req" /\ r.res # Pending /\ r.res.raw.valid /\ ReadDone(r, FALSE)) =>
             /\ resp' = FreshBody(Parsed(r.res.raw))
             /\ statsCache' = Some(Parsed(r.res.raw))
             /\ cacheTimestamp' = Some(now)
             /\ reads' = Retire(r)]_vars

\* A request was answered cached:false and its summary stored at time 1.
C3_Witness ==
  /\ resp.status = 200
  /\ resp.cached = Some(FALSE)
  /\ resp.cacheAge = Null
  /\ resp.body[1].total = 1
  /\ statsCache = resp.body
  /\ cacheTimestamp = Some(1)
  /\ reads = EmptyBag

\* C4 as claimed: when a GET has been answered 200 and no change notification
\* was delivered since, the next request is answered cached:true with
\* cacheAge >= 0 and the same summary as that answer.
C4_NextRequestSameSummary ==
  [][(GetStats /\ quiet /\ resp.status = 200) =>
       /\ Hit
       /\ resp'.cached = Some(TRUE)
       /\ resp'.cacheAge # Null /\ resp'.cacheAge[1] >= 0
       /\ resp'.body = resp.body]_vars

\* C4 as amended: when a GET has been answered 200 and no change notification
\* was delivered since, the next request is answered from the cache, with
\* cached:true, cacheAge >= 0 and the summary the cache holds then (the one
\* of the store read that succeeded last).
C4_NextRequestCached ==
  [][(GetStats /\ quiet) =>
       /\ Hit
       /\ resp'.status = 200
       /\ resp'.cached = Some(TRUE)
       /\ resp'.cacheAge # Null /\ resp'.cacheAge[1] >= 0
       /\ resp'.body = statsCache]_vars

\* A request was answered from an entry that only an earlier request can
\* have stored (no background refresh has succeeded).
C4_Witness ==
  /\ quiet
  /\ resp.cached = Some(TRUE)
  /\ resp.cacheAge = Some(1)
  /\ ~Logged("Stats cache refreshed")

C6_MissWhileRefreshing ==
  [][(GetStats /\ RefreshInFlight) =>
       (~Hit /\ reads' = Issue(NewRead("req", FALSE)) /\ resp' = resp)]_vars

\* C6 as amended: such a request finds no entry and issues its own store read
\* as long as no store read has stored an entry since the invalidation; once
\* one has (another request's, or a read issued earlier), the request is
\* answered from that entry with cached:true.
C6_MissUntilStored ==
  [][(GetStats /\ RefreshInFlight) =>
       IF cleared
       THEN ~Hit /\ reads' = Issue(NewRead("req", FALSE)) /\ resp' = resp
       ELSE Hit /\ resp'.cached = Some(TRUE) /\ resp'.body = statsCache]_vars

\* A request has arrived while the reload of a notification is in flight and
\* nothing was stored since the invalidation; its own read is in flight too.
C6_Witness ==
  /\ cleared
  /\ started
  /\ RefreshInFlight
  /\ \E r \in InFlight : r.owner = "req"
  /\ resp.cached = Some(TRUE)

\* C7: the listener, on a 'change' notification, sets both cache variables to
\* null and then issues the reload, so the cache is absent right after the
\* notification; a reload that succeeds stores a fresh entry.
C7_InvalidateThenReload ==
  [][/\ (DeliverEvent /\ Head(events) = "change") =>
          /\ statsCache' = Null
          /\ cacheTimestamp' = Null
          /\ \E latest \in BOOLEAN : reads' = Issue(NewRead("watch", latest))
     /\ \A r \in InFlight :
          (r.owner = "watch" /\ r.res # Pending /\ r.res.raw.valid /\ ReadDone(r, FALSE)) =>
             /\ statsCache' = Some(Parsed(r.res.raw))
             /\ cacheTimestamp' = Some(now)]_vars

\* A notification has removed an entry that a request had been served from,
\* and its reload is in flight.
C7_Witness ==
  /\ Logged("Data file changed, invalidating stats cache...")
  /\ resp.cached = Some(TRUE)
  /\ statsCache = Null
  /\ cacheTimestamp = Null
  /\ RefreshInFlight

\* C8: the cache is all or nothing: statsCache is null exactly when
\* cacheTimestamp is, and every step that changes the entry either clears
\* both or stores the summary of one completed store read with the time of
\* that same step.
C8_AllOrNothing ==
  /\ [](statsCache = Null <=> cacheTimestamp = Null)
  /\ [][(statsCache' # statsCache \/ cacheTimestamp' # cacheTimestamp) =>
          \/ statsCache' = Null /\ cacheTimestamp' = Null
          \/ \E r \in InFlight :
               /\ r.res # Pending
               /\ r.res.raw.valid
               /\ reads' = Retire(r)
               /\ statsCache' = Some(Parsed(r.res.raw))
               /\ cacheTimestamp' = Some(now)]_vars

\* An entry was stored again, at time 1, after a notification had cleared
\* the cache.
C8_Witness ==
  /\ Logged("Data file changed, invalidating stats cache...")
  /\ Hit
  /\ cacheTimestamp = Some(1)
  /\ statsCache[1].total = 1

C10_RefreshFailureAbsorbed ==
  [][\A r \in InFlight, err \in BOOLEAN :
       (r.owner = "watch" /\ (err \/ r.res # Pending) /\ ~Resolves(r, err)
          /\ ReadDone(r, err)) =>
          /\ UNCHANGED <<statsCache, cacheTimestamp, resp, watcher, events>>
          /\ reads' = Retire(r)]_vars

\* A refresh has failed; the watcher is open with a notification queued, and
\* no request was answered with an error.
C10_Witness ==
  /\ Logged("Error refreshing stats cache:")
  /\ watcher # Null
  /\ events # << >>
  /\ resp.status = 200

\* C11: a request's store read that fails (I/O error, or text that does not
\* parse) is answered with the error response, once (the read is retired with
\* that answer), never with a 200 body, and leaves both cache variables as
\* they were.
C11_RequestFailureSurfaced ==
  [][\A r \in InFlight, err \in BOOLEAN :
       (r.owner = "req" /\ (err \/ r.res # Pending) /\ ~Resolves(r, err)
          /\ ReadDone(r, err)) =>
          /\ resp' = [status |-> 500, body |-> Null, cached |-> Null, cacheAge |-> Null]
          /\ UNCHANGED <<statsCache, cacheTimestamp>>
          /\ reads' = Retire(r)]_vars

\* A request was answered with an error while the cache held the entry of
\* another request, which is still there.
C11_Witness ==
  /\ resp.status = 500
  /\ resp.body = Null
  /\ Hit
  /\ ~Logged("Stats cache refreshed")

C13_CleanupIdempotent ==
  [][Cleanup =>
       /\ watcher' = Null
       /\ handles' = 0
       /\ watcher # Null => handles' = handles - 1
       /\ watcher = Null => UNCHANGED vars]_vars

\* The watcher was opened and has been stopped; the entry it left is still
\* served.
C13_Witness ==
  /\ Logged("File watcher initialized for stats caching")
  /\ watcher = Null
  /\ handles = 0
  /\ resp.cached = Some(TRUE)

\* C14: an entry that is present becomes absent only in the listener's handling
\* of a 'change' notification; a request and the passage of time leave the
\* cache as it is.
C14_NoExpiry ==
  /\ [][(statsCache # Null /\ statsCache' = Null) =>
          (events # << >> /\ Head(events) = "change" /\ DeliverEvent)]_vars
  /\ [][(GetStats \/ Tick) => UNCHANGED <<statsCache, cacheTimestamp>>]_vars

\* After a notification had cleared the cache, an entry stored at time 0 was
\* served at time 1.
C14_Witness ==
  /\ Logged("Data file changed, invalidating stats cache...")
  /\ Hit
  /\ cacheTimestamp = Some(0)
  /\ now = 1
  /\ resp.cached = Some(TRUE)
  /\ resp.cacheAge = Some(1)

\* A request is waiting for its store read.
PendingReq == \E r \in InFlight : r.owner = "req"

\* C16: a request that finds no entry while another request's read is in
\* flight issues a read of its own; each of these reads that succeeds answers
\* its request cached:false with the summary of the text it read and stores
\* that summary as the whole entry, so the entry left is the one written last.
C16_NoSingleFlight ==
  [][/\ (~Hit /\ PendingReq /\ GetStats) =>
          /\ BagCardinality(reads') = BagCardinality(reads) + 1
          /\ CopiesIn(NewRead("req", FALSE), reads')
               = CopiesIn(NewRead("req", FALSE), reads) + 1
     /\ \A r \in InFlight :
          (r.owner = "req" /\ r.res # Pending /\ r.res.raw.valid /\ ReadDone(r, FALSE)) =>
             /\ resp'.status = 200
             /\ resp'.cached = Some(FALSE)
             /\ resp'.body = Some(Parsed(r.res.raw))
             /\ statsCache' = resp'.body
             /\ cacheTimestamp' = Some(now)]_vars

\* Two requests found no entry, and their reads were served different texts
\* of the file.
C16_Witness ==
  \E r1, r2 \in InFlight :
    /\ r1.owner = "req" /\ r2.owner = "req"
    /\ r1.res # Pending /\ r2.res # Pending
    /\ r1.res.raw.valid /\ r2.res.raw.valid
    /\ r1.res.raw # r2.res.raw

\* C15: a request is answered in the step that handles it when it finds an
\* entry; and when the reads that requests start complete, then, once requests
\* stop arriving, every request has been answered, whether or not any
\* notification is delivered or any background refresh completes.
C15_RequestsAnswered ==
  /\ [][(Hit /\ GetStats) => (resp'.status = 200 /\ reads' = reads)]_vars
  /\ (<>[][~GetStats]_vars) => <>[]~PendingReq

\* A request was answered from its own read while a background refresh was in
\* flight, and no refresh has ever completed.
C15_Witness ==
  /\ RefreshInFlight
  /\ ~PendingReq
  /\ ~cleared
  /\ resp.cached = Some(FALSE)
  /\ ~Logged("Stats cache refreshed")
  /\ ~Logged("Error refreshing stats cache:")

\* calculateStats has returned for a non-empty array.
Calculated == statsOut # Null /\ Len(itemsArg) > 0
\* The sum of the prices of a sequence of items.
RECURSIVE SumOfPrices(_)
SumOfPrices(seq) ==
  IF seq = << >> THEN 0 ELSE Head(seq).price + SumOfPrices(Tail(seq))
\* r is num / den rounded to 2 decimals, a half rounded up (all in
\* thousandths): a whole number of hundredths with r - 0.005 <= num/den < r + 0.005.
IsRoundedHalfUp(r, num, den) ==
  /\ r % 10 = 0
  /\ (r - 5) * den <= num
  /\ num < (r + 5) * den
\* A price rounded to 2 decimals, and the sum of the rounded prices.
RoundedPrice(p) == CHOOSE r \in 0..(p + 10) : IsRoundedHalfUp(r, p, 1)
RECURSIVE SumOfRoundedPrices(_)
SumOfRoundedPrices(seq) ==
  IF seq = << >> THEN 0
  ELSE RoundedPrice(Head(seq).price) + SumOfRoundedPrices(Tail(seq))

\* C17: for every non-empty array, total is the length of the array.
C17_TotalIsLength ==
  Calculated => statsOut[1].total = Len(itemsArg)

\* calculateStats has returned for an array of three items of one category.
C17_Witness ==
  /\ Calculated
  /\ Len(itemsArg) = 3
  /\ statsOut[1].total = 3
  /\ Cardinality(DOMAIN statsOut[1].categories) = 1

ZeroSummary ==
  [total |-> 0, averagePrice |-> 0, totalValue |-> 0,
   categories |-> << >>, priceRange |-> [min |-> 0, max |-> 0]]

\* C19: for the empty array calculateStats returns the summary of zeros with
\* no category, and a request whose read is served the text of an empty array
\* is answered 200 with that summary.
C19_EmptySummary ==
  /\ [](calculateStats(<< >>) = ZeroSummary)
  /\ [][\A r \in InFlight :
          (r.owner = "req" /\ r.res # Pending /\ r.res.raw.valid
             /\ r.res.raw.items = << >> /\ ReadDone(r, FALSE)) =>
             /\ resp'.status = 200
             /\ resp'.body = Some(ZeroSummary)]_vars

\* A request over the empty store was answered 200 with total 0.
C19_Witness ==
  /\ dataFile = JsonOf(<< >>)
  /\ resp.status = 200
  /\ resp.cached = Some(FALSE)
  /\ resp.body # Null
  /\ resp.body[1].total = 0
  /\ resp.body[1].averagePrice = 0
  /\ resp.body[1].priceRange = [min |-> 0, max |-> 0]

\* C20: for every non-empty array, priceRange.min <= priceRange.max, min is a
\* price of the array that no price is below, and max one that no price is
\* above.
C20_PriceRange ==
  Calculated =>
    LET range == statsOut[1].priceRange
        prices == {itemsArg[i].price : i \in DOMAIN itemsArg}
    IN  /\ range.min <= range.max
        /\ range.min \in prices
        /\ range.max \in prices
        /\ \A p \in prices : range.min <= p /\ p <= range.max

\* calculateStats has returned for an array whose smallest price is the last
\* and whose largest is in the middle.
C20_Witness ==
  /\ Calculated
  /\ Len(itemsArg) = 3
  /\ itemsArg[1].price = 125 /\ itemsArg[2].price = 29990 /\ itemsArg[3].price = 0
  /\ statsOut[1].priceRange = [min |-> 0, max |-> 29990]

\* The items of a sequence that have the category c.
RECURSIVE ItemsOfCategory(_, _)
ItemsOfCategory(seq, c) ==
  IF seq = << >> THEN << >>
  ELSE IF Head(seq).category = c
       THEN <<Head(seq)>> \o ItemsOfCategory(Tail(seq), c)
       ELSE ItemsOfCategory(Tail(seq), c)
\* The category strings that occur in a sequence of items.
CategoriesOf(seq) == {seq[i].category : i \in DOMAIN seq}

\* C21: the breakdown has one key for each category string that occurs in the
\* array, compared exactly (case-sensitively) and no other key; the bucket of a
\* category holds the number of the items of exactly that category and the sum
\* of their prices.
C21_ExactBuckets ==
  Calculated =>
    LET categories == statsOut[1].categories
    IN  /\ DOMAIN categories = CategoriesOf(itemsArg)
        /\ \A c \in CategoriesOf(itemsArg) :
             /\ c \in DOMAIN categories
             /\ categories[c].count = Len(ItemsOfCategory(itemsArg, c))
             /\ categories[c].totalValue = SumOfPrices(ItemsOfCategory(itemsArg, c))

\* The sums of count and of totalValue over a set of keys of a breakdown.
RECURSIVE SumOfCounts(_, _)
SumOfCounts(categories, keys) ==
  IF keys = {} THEN 0
  ELSE LET k == CHOOSE x \in keys : TRUE
       IN  categories[k].count + SumOfCounts(categories, keys \ {k})
RECURSIVE SumOfTotalValues(_, _)
SumOfTotalValues(categories, keys) ==
  IF keys = {} THEN 0
  ELSE LET k == CHOOSE x \in keys : TRUE
       IN  categories[k].totalValue + SumOfTotalValues(categories, keys \ {k})

\* C27: in every summary calculateStats returns, the counts of the categories
\* add up to total, every category listed has a count of at least 1, and the
\* totalValues of the categories add up to the unrounded sum of the prices.
C27_BreakdownAddsUp ==
  statsOut # Null =>
    LET categories == statsOut[1].categories
    IN  /\ SumOfCounts(categories, DOMAIN categories) = statsOut[1].total
        /\ \A c \in DOMAIN categories : categories[c].count >= 1
        /\ SumOfTotalValues(categories, DOMAIN categories) = SumOfPrices(itemsArg)

\* C26: a store read issued before a change notification does not put the
\* contents from before the change back into the cache after the
\* notification's invalidation: with the watcher open, once the refresh of the
\* notification of the latest modification has completed successfully and no
\* notification is queued and no store read is in flight, an entry that is
\* present is the summary of the file as it is.
C26_CacheMatchesStore ==
  (watcher # Null /\ settled /\ events = << >> /\ reads = EmptyBag /\ Hit)
    => statsCache = Some(Parsed(dataFile))

\* C29: the listener, on a notification whose type is not 'change', leaves
\* statsCache and cacheTimestamp as they are and issues no store read.
C29_OtherEventIgnored ==
  [][(events # << >> /\ Head(events) # "change" /\ DeliverEvent) =>
       UNCHANGED <<statsCache, cacheTimestamp, reads, log>>]_vars

\* The file was replaced while the watcher was open and an entry was present;
\* the 'rename' notification has been delivered, and the entry is still the
\* summary of the old file.
C29_Witness ==
  /\ watcher # Null
  /\ events = << >>
  /\ reads = EmptyBag
  /\ Hit
  /\ dataFile.valid
  /\ statsCache # Some(Parsed(dataFile))
  /\ ~Logged("Data file changed, invalidating stats cache...")

\* The module was loaded and holds no watcher: router._cleanup has stopped it
\* (or it never started).
Stopped == loaded /\ watcher = Null

\* C30: router._cleanup changes the watcher handle (and with it the
\* notifications it would deliver) and nothing else, statsCache and
\* cacheTimestamp included; once stopped, the watcher stays stopped, no
\* modification of the file queues a notification or changes the cache, an
\* entry that is present stays present, and every request that finds one is
\* answered from it with cached:true.
C30_StopFreezesInvalidation ==
  /\ [][Cleanup =>
          UNCHANGED <<dataFile, statsCache, cacheTimestamp, loaded, reads, now,
                      started, resp, log>>]_vars
  /\ [][Stopped => (watcher' = Null /\ events' = << >>)]_vars
  /\ [][(Stopped /\ Hit) => statsCache' # Null]_vars
  /\ [][(Stopped /\ dataFile' # dataFile) =>
          UNCHANGED <<statsCache, cacheTimestamp>>]_vars
  /\ [][(Stopped /\ Hit /\ GetStats) =>
          (resp'.status = 200 /\ resp'.cached = Some(TRUE)
             /\ resp'.body = statsCache)]_vars

\* The watcher was opened and then stopped; the file has been modified since
\* the entry was computed, and a request was answered from that entry.
C30_Witness ==
  /\ Logged("File watcher initialized for stats caching")
  /\ Stopped
  /\ Hit
  /\ dataFile.valid
  /\ statsCache # Some(Parsed(dataFile))
  /\ resp.cached = Some(TRUE)
  /\ resp.body = statsCache

\* The item array the data file holds (none when its text does not parse).
StoredArray == IF dataFile.valid THEN dataFile.items ELSE << >>

\* C22: after any sequence of POST /api/items requests, requests handled at
\* the same clock value included, the items in the store have pairwise
\* distinct ids.
C22_UniqueIds ==
  \A i, j \in DOMAIN StoredArray :
    i # j => StoredArray[i].id # StoredArray[j].id

\* A body field that is missing, not a string, or empty after trimming: not a
\* string with a character that is not white space.
NotAName(x) == ~(x.t = "string" /\ \E i \in DOMAIN x.s : ~IsSpace(x.s[i]))
\* A body field that is missing, not a number, or negative.
NotAPrice(x) == ~(x.t = "number" /\ x.n >= 0)
\* The fields of a body that offend, and the message that names a field.
OffendingFields(body) ==
  {f \in {"name", "category", "price"} :
     \/ f = "name" /\ NotAName(body.name)
     \/ f = "category" /\ NotAName(body.category)
     \/ f = "price" /\ NotAPrice(body.price)}
MessageNaming(f) ==
  CASE f = "name" -> "Name is required and must be a non-empty string"
    [] f = "category" -> "Category is required and must be a non-empty string"
    [] f = "price" -> "Price is required and must be a non-negative number"

\* C23: a POST /api/items with an offending name, category or price is
\* answered 400 with the message that names an offending field, in the step
\* that receives it; no store read is issued for it and the file is left as
\* it is.
C23_InvalidRejected ==
  [][\A body \in InvalidBodies :
       (OffendingFields(body) # {} /\ PostItems(body)) =>
          /\ itemsResp'.status = 400
          /\ \E f \in OffendingFields(body) :
               itemsResp'.body = Some([error |-> MessageNaming(f)])
          /\ UNCHANGED <<dataFile, calls, created>>]_vars

\* A request was answered 400 for its price while the store held an item and
\* another POST was waiting for its read.
C23_Witness ==
  /\ itemsResp = [status |-> 400, body |-> Some([error |-> MessageNaming("price")])]
  /\ Len(StoredArray) = 1
  /\ \E c \in PostsInFlight : c.st = "reading"

\* t is s with the white space at its two ends removed.
IsTrimOf(t, s) ==
  /\ t = << >> \/ (~IsSpace(t[1]) /\ ~IsSpace(t[Len(t)]))
  /\ \E i \in 0..Len(s) :
       /\ i + Len(t) <= Len(s)
       /\ SubSeq(s, i + 1, i + Len(t)) = t
       /\ \A k \in (1..i) \cup ((i + Len(t) + 1)..Len(s)) : IsSpace(s[k])

\* C24: a POST /api/items with a valid name, category and price (0 included)
\* is not rejected; when its read and its write succeed it is answered 201
\* with an item that carries the trimmed name, the trimmed category and the
\* given price; and when the file is, at its write, as it was at its read, the
\* file afterwards holds the items it held, in their order, followed by that
\* one item.
C24_ValidAppended ==
  [][/\ \A body \in ValidBodies :
          (OffendingFields(body) = {} /\ PostItems(body)) =>
             /\ itemsResp'.status # 400
             /\ calls' = calls (+) SetToBag({NewCall("post", body)})
     /\ \A c \in CallsInFlight :
          /\ (c.st = "writing" /\ dataFile = c.raw[1] /\ ItemsFsWrite(c, FALSE)) =>
                /\ dataFile'.valid
                /\ dataFile'.items = dataFile.items \o <<c.item[1]>>
                /\ IsTrimOf(c.item[1].name, c.req.name.s)
                /\ IsTrimOf(c.item[1].category, c.req.category.s)
                /\ c.item[1].price = c.req.price.n
          /\ (c.st = "written" /\ PostAfterWrite(c)) =>
                /\ itemsResp' = [status |-> 201, body |-> c.item]
                /\ IsTrimOf(c.item[1].name, c.req.name.s)
                /\ IsTrimOf(c.item[1].category, c.req.category.s)
                /\ c.item[1].price = c.req.price.n]_vars

\* A request sent with name " Ab", category "b " and price 0 was answered 201
\* with "Ab", "b" and 0, and the store holds an earlier item followed by it.
C24_Witness ==
  /\ itemsResp.status = 201
  /\ itemsResp.body[1].name = <<"A", "b">>
  /\ itemsResp.body[1].category = <<"b">>
  /\ itemsResp.body[1].price = 0
  /\ itemsResp.body[1].id = 1
  /\ Len(StoredArray) = 2
  /\ StoredArray[1].id = 0
  /\ StoredArray[2] = itemsResp.body[1]

\* C28: once no POST /api/items is in flight, every item a POST was answered
\* 201 with is in the store, however the requests interleaved.
C28_NoLostItem ==
  PostsInFlight = {} =>
    \A item \in created : \E i \in DOMAIN StoredArray : StoredArray[i] = item

\* s contains q, letter case ignored.
ContainsIgnoringCase(s, q) ==
  \E i \in 0..(Len(s) - Len(q)) :
    \A k \in 1..Len(q) : lowerOf(s[i + k]) = lowerOf(q[k])
\* The items whose name or category contains the term, in their order.
RECURSIVE MatchesOf(_, _)
MatchesOf(items, term) ==
  IF items = << >> THEN << >>
  ELSE IF ContainsIgnoringCase(Head(items).name, term)
          \/ ContainsIgnoringCase(Head(items).category, term)
       THEN <<Head(items)>> \o MatchesOf(Tail(items), term)
       ELSE MatchesOf(Tail(items), term)
\* s with the white space at its two ends removed.
TrimmedOf(s) ==
  CHOOSE t \in {SubSeq(s, i, j) : i \in 1..(Len(s) + 1), j \in 0..Len(s)} :
    IsTrimOf(t, s)
\* The page and the limit a query asks for (1 and 10 when absent).
PageOf(query) == IF query.page.t = "undefined" THEN 1 ELSE parseInt10(query.page)
LimitOf(query) == IF query.limit.t = "undefined" THEN 10 ELSE parseInt10(query.limit)
\* body is the page of the matches that the query asks for.
IsPageOf(body, matches, query) ==
  LET page == PageOf(query)
      limit == LimitOf(query)
      total == Len(matches)
      first == (page - 1) * limit
      count == IF total - first <= 0 THEN 0
               ELSE IF total - first < limit THEN total - first ELSE limit
  IN  /\ body.data = [k \in 1..count |-> matches[first + k]]
      /\ body.pagination.page = page
      /\ body.pagination.limit = limit
      /\ body.pagination.total = total
      /\ body.pagination.totalPages * limit >= total
      /\ (body.pagination.totalPages - 1) * limit < total
      /\ body.pagination.totalPages >= 0
      /\ body.pagination.hasMore = (page * limit < total)
\* A listing that has read an array that parses.
ListingRead(c) == c.kind = "get" /\ c.st = "read" /\ c.raw[1].valid

\* C25 as claimed: GET /api/items with page >= 1, limit >= 1 and optional q is
\* answered with the page of the matches, the matches being the stored items
\* whose name or category contains q case-insensitively (all items when q is
\* absent): data is the slice from (page-1)*limit of at most limit matches in
\* store order, total the number of matches, totalPages ceil(total/limit) and
\* hasMore true exactly when page*limit < total.
C25_PageOfMatchesOfQ ==
  [][\A c \in CallsInFlight :
       (ListingRead(c) /\ GetAfterRead(c, FALSE)) =>
          /\ itemsResp'.status = 200
          /\ IsPageOf(itemsResp'.body[1],
                      IF c.req.q.t = "undefined" THEN c.raw[1].items
                      ELSE MatchesOf(c.raw[1].items, c.req.q.s),
                      c.req)]_vars

\* C25 as amended: the same, the matches being the stored items whose name or
\* category contains, case-insensitively, q with the white space at its ends
\* removed (all items when q is absent, or nothing but white space).
C25_PageOfMatchesOfTrimmedQ ==
  [][\A c \in CallsInFlight :
       (ListingRead(c) /\ GetAfterRead(c, FALSE)) =>
          /\ itemsResp'.status = 200
          /\ IsPageOf(itemsResp'.body[1],
                      IF c.req.q.t = "undefined" THEN c.raw[1].items
                      ELSE MatchesOf(c.raw[1].items, TrimmedOf(c.req.q.s)),
                      c.req)]_vars

\* A listing of page 2 with limit 1 was answered with the second of two
\* matches and hasMore false, over a store of two items.
C25_Witness ==
  /\ itemsResp.status = 200
  /\ Len(StoredArray) = 2
  /\ itemsResp.body[1].data = <<StoredArray[2]>>
  /\ itemsResp.body[1].pagination =
       [page |-> 2, limit |-> 1, total |-> 2, totalPages |-> 2, hasMore |-> FALSE]

\* C31: when a fetch effect of Items or ItemDetail is cleaned up, the signal
\* of its pending request is aborted, and items, pagination, error and
\* loading (of DataProvider, and item, error and loading of an ItemDetail
\* that stays rendered) change only in a step in which the owner's effect
\* issues a request, or in which the request issued last settles and its
\* effect has not been cleaned up; a request whose effect was cleaned up
\* changes none of them.
C31_AbortedNeverUpdates ==
  [][LET ListState(p) == <<p.items, p.pagination, p.error, p.loading>>
         DetailState(d) == <<d.item, d.error, d.loading>>
         DetailStays ==
           /\ itemDetail.mounted
           /\ itemDetail'.mounted
           /\ itemDetail'.instance = itemDetail.instance
         Issues(owner) ==
           /\ issued' = issued + 1
           /\ \E r \in fetches' \ fetches : r.owner = owner /\ r.controller = issued'
         LatestSettles(owner) ==
           \E r \in fetches \ fetches' :
             r.owner = owner /\ r.controller = issued /\ r.controller \notin aborted
     IN  /\ \A r \in fetches' : r.controller \in aborted' => SignalAborted(r)'
         /\ ListState(provider') # ListState(provider)
              => Issues("Items") \/ LatestSettles("Items")
         /\ (DetailStays /\ DetailState(itemDetail') # DetailState(itemDetail))
              => Issues("ItemDetail") \/ LatestSettles("ItemDetail")]_vars

\* The requests of two effects that were cleaned up have settled, one of
\* them of Items, and the request issued last has loaded item 2:
\* DataProvider still says loading, which only a request that ended in
\* AbortError leaves behind.
C31_Witness ==
  /\ aborted = {1, 2}
  /\ issued = 3
  /\ fetches = {}
  /\ ~itemsPage.mounted
  /\ provider.loading
  /\ itemDetail.mounted
  /\ itemDetail.id = 2
  /\ itemDetail.item = Some(2)
  /\ ~itemDetail.loading
====
